---- MODULE Spec2Model ----
(***************************************************************************)
(* Model of the point-of-sale components ManualInvoice (manual invoice     *)
(* entry), ShoppingCart (catalog cart with discount and checkout) and      *)
(* CartView (read-only cart page).                                         *)
(*                                                                         *)
(* JavaScript numbers are IEEE-754 doubles.  A number is modelled as a     *)
(* sign, an integer part and a sequence of binary fraction digits:         *)
(*     value = sign * (int + SUM_i frac[i] * 2^-i)                         *)
(* with frac carrying no trailing 0, so equal values are equal records.    *)
(* Every arithmetic result is rounded to 53 significant bits, ties to      *)
(* even, as the hardware does.                                             *)
(***************************************************************************)
EXTENDS Integers, Sequences, FiniteSets, TLC

\* ------------------------------------------------------------------------
\* Bounds of the model
\* ------------------------------------------------------------------------
MaxItems == 2
MaxQty == 2
MaxReceipts == 2
MaxClock == 1
MaxCart == 2
MaxLog == 11
MaxInflight == 2

\* ------------------------------------------------------------------------
\* IEEE-754 double arithmetic
\* ------------------------------------------------------------------------
MantissaBits == 53

Num(k) == [sign |-> IF k < 0 THEN -1 ELSE 1, int |-> IF k < 0 THEN -k ELSE k, frac |-> <<>>]
Zero == Num(0)
\* The value undefined of an optional number has sign 0.
Undefined == [sign |-> 0, int |-> 0, frac |-> <<>>]
IsInteger(x) == x.frac = <<>>
Mag(x) == [sign |-> 1, int |-> x.int, frac |-> x.frac]
IsZero(x) == x.int = 0 /\ x.frac = <<>>
WithSign(s, x) == IF IsZero(x) THEN Zero ELSE [sign |-> s, int |-> x.int, frac |-> x.frac]

Zeros(k) == [i \in 1..k |-> 0]
MaxOf(a, b) == IF a >= b THEN a ELSE b

\* Drop the trailing zeros of a digit sequence
Trim(f) ==
  SubSeq(f, 1, CHOOSE m \in 0..Len(f) :
                 (m = 0 \/ f[m] = 1) /\ \A j \in (m + 1)..Len(f) : f[j] = 0)

\* Number of binary digits of an integer 0 <= n < 2^31
BitLen(n) == Cardinality({k \in 0..30 : 2^k <= n})

LeadingZeros(f) ==
  CHOOSE z \in 0..Len(f) : (z = Len(f) \/ f[z + 1] = 1) /\ \A j \in 1..z : f[j] = 0

\* Long arithmetic handles the fraction digits twelve at a time (a limb).
LimbBits == 12
Base == 4096
Bit(f, i) == IF i \in 1..Len(f) THEN f[i] ELSE 0
LimbAt(f, j) ==
  LET o == LimbBits * (j - 1)
  IN 2048 * Bit(f, o + 1) + 1024 * Bit(f, o + 2) + 512 * Bit(f, o + 3) + 256 * Bit(f, o + 4)
     + 128 * Bit(f, o + 5) + 64 * Bit(f, o + 6) + 32 * Bit(f, o + 7) + 16 * Bit(f, o + 8)
     + 8 * Bit(f, o + 9) + 4 * Bit(f, o + 10) + 2 * Bit(f, o + 11) + Bit(f, o + 12)
NLimbs(n) == (n + LimbBits - 1) \div LimbBits
ToLimbs(f, n) == [j \in 1..n |-> LimbAt(f, j)]
FromLimbs(l) ==
  Trim([i \in 1..(LimbBits * Len(l)) |->
          (l[(i - 1) \div LimbBits + 1] \div 2^(LimbBits - 1 - ((i - 1) % LimbBits))) % 2])

\* a + b on limbs of equal length, from the last limb up
RECURSIVE AddLimbs(_, _, _, _, _)
AddLimbs(a, b, i, c, acc) ==
  IF i = 0 THEN [carry |-> c, limbs |-> acc]
  ELSE LET s == a[i] + b[i] + c
       IN AddLimbs(a, b, i - 1, s \div Base, <<s % Base>> \o acc)

\* a - b on limbs of equal length, from the last limb up
RECURSIVE SubLimbs(_, _, _, _, _)
SubLimbs(a, b, i, c, acc) ==
  IF i = 0 THEN [borrow |-> c, limbs |-> acc]
  ELSE LET s == a[i] - b[i] - c
       IN SubLimbs(a, b, i - 1, IF s < 0 THEN 1 ELSE 0, <<IF s < 0 THEN s + Base ELSE s>> \o acc)

\* k * limbs for an integer 0 <= k < 2^19, from the last limb up
RECURSIVE MulLimbs(_, _, _, _, _)
MulLimbs(a, k, i, c, acc) ==
  IF i = 0 THEN [carry |-> c, limbs |-> acc]
  ELSE LET s == k * a[i] + c
       IN MulLimbs(a, k, i - 1, s \div Base, <<s % Base>> \o acc)

\* Exact operations on magnitudes (sign ignored, result sign 1)
MagLess(x, y) ==
  \/ x.int < y.int
  \/ /\ x.int = y.int
     /\ \E i \in 1..Len(y.frac) :
          /\ Bit(x.frac, i) < y.frac[i]
          /\ \A j \in 1..(i - 1) : Bit(x.frac, j) = y.frac[j]

MagAdd(x, y) ==
  LET n == NLimbs(MaxOf(Len(x.frac), Len(y.frac)))
      r == AddLimbs(ToLimbs(x.frac, n), ToLimbs(y.frac, n), n, 0, <<>>)
  IN [sign |-> 1, int |-> x.int + y.int + r.carry, frac |-> FromLimbs(r.limbs)]

\* x - y for magnitudes with y <= x
MagSub(x, y) ==
  LET n == NLimbs(MaxOf(Len(x.frac), Len(y.frac)))
      r == SubLimbs(ToLimbs(x.frac, n), ToLimbs(y.frac, n), n, 0, <<>>)
  IN [sign |-> 1, int |-> x.int - y.int - r.borrow, frac |-> FromLimbs(r.limbs)]

MagMulInt(k, x) ==
  LET n == NLimbs(Len(x.frac))
      r == MulLimbs(ToLimbs(x.frac, n), k, n, 0, <<>>)
  IN [sign |-> 1, int |-> k * x.int + r.carry, frac |-> FromLimbs(r.limbs)]

\* Long multiplication of two fractions: the sum of the limb products of
\* column k, then the carries from the last column up.
RECURSIVE ColumnSum(_, _, _, _)
ColumnSum(a, b, k, i) ==
  IF i > Len(a) THEN 0
  ELSE (IF k - i \in 1..Len(b) THEN a[i] * b[k - i] ELSE 0) + ColumnSum(a, b, k, i + 1)

RECURSIVE MulColumns(_, _, _, _, _)
MulColumns(a, b, k, c, acc) ==
  IF k = 1 THEN <<c>> \o acc
  ELSE LET s == c + ColumnSum(a, b, k, 1)
       IN MulColumns(a, b, k - 1, s \div Base, <<s % Base>> \o acc)

FracMul(xf, yf) ==
  LET a == ToLimbs(xf, NLimbs(Len(xf)))
      b == ToLimbs(yf, NLimbs(Len(yf)))
  IN [sign |-> 1, int |-> 0, frac |-> FromLimbs(MulColumns(a, b, Len(a) + Len(b), 0, <<>>))]

\* (xi + xf) * (yi + yf) = xi * y + yi * xf + xf * yf
MagMul(x, y) ==
  IF IsInteger(x) THEN MagMulInt(x.int, y)
  ELSE IF IsInteger(y) THEN MagMulInt(y.int, x)
  ELSE MagAdd(MagAdd(MagMulInt(x.int, y),
                     MagMulInt(y.int, [sign |-> 1, int |-> 0, frac |-> x.frac])),
              FracMul(x.frac, y.frac))

\* Exact signed operations
ExactAdd(x, y) ==
  IF x.sign = y.sign THEN WithSign(x.sign, MagAdd(x, y))
  ELSE IF MagLess(x, y) THEN WithSign(y.sign, MagSub(y, x))
  ELSE WithSign(x.sign, MagSub(x, y))
Negate(x) == WithSign(-x.sign, x)
ExactSub(x, y) == ExactAdd(x, Negate(y))
ExactMul(x, y) == WithSign(x.sign * y.sign, MagMul(x, y))
Less(x, y) ==
  IF x.sign # y.sign THEN x.sign < y.sign
  ELSE IF x.sign = 1 THEN MagLess(x, y) ELSE MagLess(y, x)
Leq(x, y) == x = y \/ Less(x, y)

\* Round an exact value to the nearest double, ties to even.  sticky says
\* that the exact value has further non-zero digits beyond x.frac.
Round53(x, sticky) ==
  LET keep == IF x.int > 0 THEN MantissaBits - BitLen(x.int)
              ELSE LeadingZeros(x.frac) + MantissaBits
  IN IF Len(x.frac) <= keep THEN x
     ELSE LET guard == x.frac[keep + 1]
              rest == sticky \/ \E i \in (keep + 2)..Len(x.frac) : x.frac[i] = 1
              lsb == x.frac[keep]
              trunc == [sign |-> 1, int |-> x.int, frac |-> Trim(SubSeq(x.frac, 1, keep))]
              ulp == [sign |-> 1, int |-> 0, frac |-> Zeros(keep - 1) \o <<1>>]
          IN WithSign(x.sign,
                      IF guard = 1 /\ (rest \/ lsb = 1) THEN MagAdd(trunc, ulp) ELSE trunc)

\* The JavaScript operators  x + y,  x - y,  x * y
NAdd(x, y) == Round53(ExactAdd(x, y), FALSE)
NSub(x, y) == Round53(ExactSub(x, y), FALSE)
NMul(x, y) == Round53(ExactMul(x, y), FALSE)

\* a / b for integers a >= 0 and 0 < b < 2^19: long division, a limb of the
\* quotient at a time, then rounding
RECURSIVE DivLimbs(_, _, _, _)
DivLimbs(r, b, k, acc) ==
  IF k = 0 THEN [rem |-> r, limbs |-> acc]
  ELSE DivLimbs((r * Base) % b, b, k - 1, Append(acc, (r * Base) \div b))

NDivInt(a, b) ==
  LET r == DivLimbs(a % b, b, NLimbs(MantissaBits + 1 + BitLen(b)), <<>>)
  IN Round53([sign |-> 1, int |-> a \div b, frac |-> FromLimbs(r.limbs)], r.rem # 0)

\* The w binary digits of an integer 0 <= n < 2^w, and the integer of a
\* sequence of binary digits
IntBits(n, w) == [i \in 1..w |-> (n \div 2^(w - i)) % 2]

RECURSIVE BitsToInt(_, _)
BitsToInt(f, acc) == IF f = <<>> THEN acc ELSE BitsToInt(Tail(f), 2 * acc + f[1])

\* x * 2^e, exactly, for x and x * 2^e below 2^31
Scale(x, e) ==
  IF e >= 0
  THEN [sign |-> x.sign,
        int |-> (IF x.int = 0 THEN 0 ELSE x.int * 2^e)
                + BitsToInt([i \in 1..e |-> Bit(x.frac, i)], 0),
        frac |-> SubSeq(x.frac, e + 1, Len(x.frac))]
  ELSE LET k == 0 - e
           b == IntBits(x.int, 31)
       IN [sign |-> x.sign,
           int |-> IF k >= 31 THEN 0 ELSE BitsToInt(SubSeq(b, 1, 31 - k), 0),
           frac |-> Trim(IF k >= 31 THEN Zeros(k - 31) \o b \o x.frac
                         ELSE SubSeq(b, 32 - k, 31) \o x.frac)]

\* Long division for 0 <= r < y < 1, a binary digit of the quotient at a
\* time: twice is 2 * r, the result the k digits and twice the remainder
\* they leave
RECURSIVE DivBits(_, _, _, _)
DivBits(twice, y, k, acc) ==
  IF k = 0 THEN [rem |-> twice, bits |-> acc]
  ELSE IF MagLess(twice, y)
  THEN DivBits(Scale(twice, 1), y, k - 1, Append(acc, 0))
  ELSE DivBits(Scale(MagSub(twice, y), 1), y, k - 1, Append(acc, 1))

MagDiv(x, y) ==
  LET Exponent(v) == IF v.int > 0 THEN BitLen(v.int) ELSE 0 - LeadingZeros(v.frac)
      Placed(q, inexact) ==
        Round53([sign |-> 1, int |-> q.int, frac |-> Trim(q.frac)], inexact)
      Quotient(first, r, e) ==
        Placed(Scale([sign |-> 1, int |-> first, frac |-> r.bits], e), r.rem # Zero)
      Divided(xs, ys, first, e) ==
        Quotient(first,
                 DivBits(Scale(IF first = 1 THEN MagSub(xs, ys) ELSE xs, 1), ys,
                         MantissaBits + 3, <<>>),
                 e)
      Aligned(xs, ys, e) == Divided(xs, ys, IF MagLess(xs, ys) THEN 0 ELSE 1, e)
      Normal(ex, ey) == Aligned(Scale(Mag(x), 0 - ex), Scale(Mag(y), 0 - ey), ex - ey)
  IN Normal(Exponent(x), Exponent(y))

\* The JavaScript operator  x / y  for y # 0
NDiv(x, y) ==
  IF IsZero(x) THEN Zero
  ELSE IF IsInteger(x) /\ IsInteger(y) /\ y.int < 2^19
  THEN WithSign(x.sign * y.sign, NDivInt(x.int, y.int))
  ELSE WithSign(x.sign * y.sign, MagDiv(x, y))

\* Math.max(x, y) and Math.round(x): the nearest integer, ties upwards
MathMax(x, y) == IF Less(x, y) THEN y ELSE x
MathRound(x) ==
  IF IsInteger(x) THEN x
  ELSE IF x.sign = 1 THEN Num(IF x.frac[1] = 1 THEN x.int + 1 ELSE x.int)
  ELSE IF x.frac[1] = 1 /\ Len(x.frac) > 1 THEN Num(-(x.int + 1)) ELSE Num(-x.int)

\* x <= 0 and x || y on numbers (undefined, 0 are falsy)
NonPositive(x) == Leq(x, Zero)
Truthy(x) == x # Undefined /\ x # Zero
OrElse(x, y) == IF Truthy(x) THEN x ELSE y

\* ------------------------------------------------------------------------
\* Strings: a string is a sequence of one-character strings
\* ------------------------------------------------------------------------
DigitChar(d) == <<"0", "1", "2", "3", "4", "5", "6", "7", "8", "9">>[d + 1]

\* String(n) for an integer n >= 0
RECURSIVE IntToString(_)
IntToString(n) ==
  IF n < 10 THEN <<DigitChar(n)>> ELSE IntToString(n \div 10) \o <<DigitChar(n % 10)>>

\* The decimal digits of a fraction 0 < x < 1 that String prints: the fewest
\* digits whose value still rounds to the double x, and of two such values the
\* one nearer to x.  r is what is left of x after the digits in acc, below and
\* above are half the distance to the neighbouring doubles, both scaled by
\* 10 for every digit; even says that the neighbours' midpoints round to x.
RECURSIVE ShortestDigits(_, _, _, _, _)
ShortestDigits(r, below, above, even, acc) ==
  LET Pick(d, rest, lo, hi, downOk, upOk, nearerUp) ==
        IF upOk /\ (~downOk \/ nearerUp) THEN Append(acc, DigitChar(d + 1))
        ELSE IF downOk THEN Append(acc, DigitChar(d))
        ELSE ShortestDigits(rest, lo, hi, even, Append(acc, DigitChar(d)))
      Decide(d, rest, up, lo, hi) ==
        Pick(d, rest, lo, hi,
             MagLess(rest, lo) \/ (even /\ rest = lo),
             MagLess(up, hi) \/ (even /\ up = hi),
             MagLess(up, rest) \/ (up = rest /\ d % 2 = 1))
      Remainder(d, rest) ==
        Decide(d, rest, MagSub(Num(1), rest), MagMulInt(10, below), MagMulInt(10, above))
      Digit(p) == Remainder(p.int, [sign |-> 1, int |-> 0, frac |-> p.frac])
  IN Digit(MagMulInt(10, r))

\* String(x) for a double x with |x| < 2^30, also the text of ${x} in a template
NumberToString(x) ==
  LET Minus == IF x.sign = -1 THEN <<"-">> ELSE <<>>
      Fraction(keep) ==
        LET half == [sign |-> 1, int |-> 0, frac |-> Zeros(keep) \o <<1>>]
            quarter == [sign |-> 1, int |-> 0, frac |-> Zeros(keep + 1) \o <<1>>]
            powerOfTwo == x.int = 0 /\ Len(x.frac) = LeadingZeros(x.frac) + 1
        IN ShortestDigits([sign |-> 1, int |-> 0, frac |-> x.frac],
                          IF powerOfTwo THEN quarter ELSE half, half,
                          Bit(x.frac, keep) = 0, <<>>)
      Exponential(s, z) ==
        <<s[1]>> \o (IF Len(s) > 1 THEN <<".">> \o Tail(s) ELSE <<>>)
          \o <<"e", "-">> \o IntToString(z + 1)
      Notation(digits, z) ==
        IF x.int > 0 \/ z <= 5 THEN IntToString(x.int) \o <<".">> \o digits
        ELSE Exponential(SubSeq(digits, z + 1, Len(digits)), z)
      Shown(digits) ==
        Notation(digits,
                 CHOOSE k \in 0..Len(digits) :
                   /\ k = Len(digits) \/ digits[k + 1] # "0"
                   /\ \A j \in 1..k : digits[j] = "0")
  IN IF IsInteger(x) THEN Minus \o IntToString(x.int)
     ELSE Minus \o Shown(Fraction(IF x.int > 0 THEN MantissaBits - BitLen(x.int)
                                   ELSE LeadingZeros(x.frac) + MantissaBits))

\* s.padStart(2, '0') and s.slice(-2)
PadStart2(s) == IF Len(s) >= 2 THEN s ELSE [i \in 1..(2 - Len(s)) |-> "0"] \o s
SliceLast2(s) == IF Len(s) <= 2 THEN s ELSE SubSeq(s, Len(s) - 1, Len(s))

\* ------------------------------------------------------------------------
\* Inputs the user can type or select
\* ------------------------------------------------------------------------
Names == {<<>>, <<"a">>}
Quantities == {Num(0), Num(1)}
UnitPrices == {Num(0), Num(45)}
PhotocopyQuantities == {Num(0), Num(7)}
PhotocopyTotalPrices == {Num(0), Num(29)}
Discounts == {Num(0), Num(70)}
DiscountTypes == {"amount", "percent"}
PaymentMethods == {"cash", "qris"}
ItemTypes == {"regular", "photocopy"}
UpdateQuantities == {Num(k) : k \in 0..MaxQty}

\* The calendar day of the session, as getDate(), getMonth(), getFullYear()
Today == [date |-> 5, month |-> 0, fullYear |-> 2026]

\* The catalog products and the cart lines the parent can pass in the cart prop
Products ==
  {[id |-> <<"p1">>, name |-> <<"pen">>, sellPrice |-> Num(45)],
   [id |-> <<"p2">>, name |-> <<"ink">>, sellPrice |-> Num(20)]}
ProductIds == {pr.id : pr \in Products}
FinalPrices == {Undefined, Num(0), Num(30)}
NewPrices == {Num(0), Num(30)}
CartLines == [product : Products, quantity : {Num(k) : k \in 1..MaxQty}, finalPrice : FinalPrices]
InitialCarts == UNION {[1..n -> CartLines] : n \in 0..MaxCart}

VARIABLES
  mounted,              \* the component on screen
  onPrintReceipt,       \* ManualInvoice: the optional prop onPrintReceipt is passed
  items,                \* ManualInvoice: the manual rows
  currentItem,          \* ManualInvoice: the entry fields of the regular tab
  photocopyQuantity,    \* ManualInvoice: entry field of the photocopy tab
  photocopyTotalPrice,  \* ManualInvoice: entry field of the photocopy tab
  itemType,             \* ManualInvoice: the selected tab
  paymentMethod,        \* payment method selected in the mounted component
  discount,             \* discount typed in the mounted component
  discountType,         \* discount mode selected in the mounted component
  cart,                 \* the cart prop of ShoppingCart and CartView
  receipts,             \* the receipts prop: the parent's list of receipts
  pending,              \* receipts handed to onCreateInvoice, not yet in the prop
  kept,                 \* the receipt object last handed to onCreateInvoice, where
                        \* the parent holds on to it (kept.holding)
  isSignUp,             \* LoginPage: the sign-up form is shown instead of the login form
  formData,             \* LoginPage: the fields of the login and sign-up forms
  error,                \* LoginPage: the error message on screen, "" for none
  isLoading,            \* LoginPage: a submit is in progress
  showForgotPassword,   \* LoginPage: the password-reset form is shown
  resetEmail,           \* LoginPage: the field of the password-reset form
  inflight,             \* LoginPage: per handler, the runs suspended at their await
  now,                  \* the clock read by Date.now(), in milliseconds
  last                  \* the latest handler run: name, outcome, toast, calls made

entryVars == <<currentItem, photocopyQuantity, photocopyTotalPrice, itemType>>
summaryVars == <<paymentMethod, discount, discountType>>
parentVars == <<cart, receipts, pending, kept>>
loginVars == <<isSignUp, formData, error, isLoading, showForgotPassword, resetEmail, inflight>>

vars == <<mounted, onPrintReceipt, items, entryVars, summaryVars, parentVars, loginVars, now, last>>

EmptyCurrentItem == [name |-> <<>>, quantity |-> Zero, unitPrice |-> Zero]

Ran(op, outcome, toast, calls) ==
  [op |-> op, outcome |-> outcome, toast |-> toast, calls |-> calls, received |-> <<>>]

\* The run of a handler resumed by the outcome of the call it awaited; a run
\* started from the control of a cart line receives that line and its input
Resumed(op, outcome, toast, settled) == [Ran(op, outcome, toast, <<>>) EXCEPT !.received = <<settled>>]
Call(fn, args) == [fn |-> fn, args |-> args]

\* What the model keeps of a receipt in the parent's list: the components
\* read the length of the list and the id of its entries.
Listed(r) == [id |-> r.id]

\* ------------------------------------------------------------------------
\* Values computed on every render
\* ------------------------------------------------------------------------
\* ManualInvoice: items.reduce((sum, item) => sum + item.total, 0)
RECURSIVE SumTotals(_, _, _)
SumTotals(list, i, sum) ==
  IF i > Len(list) THEN sum ELSE SumTotals(list, i + 1, NAdd(sum, list[i].total))

subtotal == SumTotals(items, 1, Zero)

\* discountType === 'percent' ? Math.round(subtotal * (discount / 100)) : discount
DiscountAmountOf(type, sub, disc) ==
  IF type = "percent" THEN MathRound(NMul(sub, NDiv(disc, Num(100)))) ELSE disc

discountAmount == DiscountAmountOf(discountType, subtotal, discount)

\* Math.max(0, subtotal - discountAmount)
TotalOf_noMax(sub, amount) == NSub(sub, amount)
TotalOf(sub, amount) == MathMax(Zero, NSub(sub, amount))

total == TotalOf(subtotal, discountAmount)

\* ShoppingCart and CartView: item.finalPrice || item.product.sellPrice
EffectivePrice(item) == OrElse(item.finalPrice, item.product.sellPrice)

RECURSIVE SumLines(_, _, _)
SumLines(list, i, sum) ==
  IF i > Len(list) THEN sum
  ELSE SumLines(list, i + 1, NAdd(sum, NMul(EffectivePrice(list[i]), list[i].quantity)))

cartSubtotal == SumLines(cart, 1, Zero)
cartDiscountAmount == DiscountAmountOf(discountType, cartSubtotal, discount)
cartTotal == TotalOf(cartSubtotal, cartDiscountAmount)

cartViewSubtotal == SumLines(cart, 1, Zero)

\* ------------------------------------------------------------------------
\* Selectors and inputs of the summary card (both components)
\* ------------------------------------------------------------------------
\* The summary card with its selectors is on screen: ManualInvoice always
\* renders it, ShoppingCart only below its early return for an empty cart
SummaryShown ==
  \/ mounted = "ManualInvoice"
  \/ mounted = "ShoppingCart" /\ Len(cart) > 0

SetPaymentMethod ==
  /\ SummaryShown
  /\ \E v \in PaymentMethods : paymentMethod' = v
  /\ last' = Ran("setState", "done", <<>>, <<>>)
  /\ UNCHANGED <<mounted, onPrintReceipt, loginVars, items, entryVars, discount, discountType, parentVars, now>>

SetDiscount ==
  /\ SummaryShown
  /\ \E v \in Discounts : discount' = OrElse(v, Zero)
  /\ last' = Ran("setState", "done", <<>>, <<>>)
  /\ UNCHANGED <<mounted, onPrintReceipt, loginVars, items, entryVars, paymentMethod, discountType, parentVars, now>>

SetDiscountType ==
  /\ SummaryShown
  /\ \E v \in DiscountTypes : discountType' = v
  /\ last' = Ran("setState", "done", <<>>, <<>>)
  /\ UNCHANGED <<mounted, onPrintReceipt, loginVars, items, entryVars, paymentMethod, discount, parentVars, now>>

\* ------------------------------------------------------------------------
\* ManualInvoice: entry fields
\* ------------------------------------------------------------------------
SetItemType ==
  /\ mounted = "ManualInvoice"
  /\ \E v \in ItemTypes : itemType' = v
  /\ last' = Ran("setState", "done", <<>>, <<>>)
  /\ UNCHANGED <<mounted, onPrintReceipt, loginVars, items, currentItem, photocopyQuantity, photocopyTotalPrice,
                 summaryVars, parentVars, now>>

\* The three inputs of the regular tab
SetCurrentItem ==
  /\ mounted = "ManualInvoice"
  /\ itemType = "regular"
  /\ \/ \E v \in Names : currentItem' = [currentItem EXCEPT !.name = v]
     \/ \E v \in Quantities : currentItem' = [currentItem EXCEPT !.quantity = OrElse(v, Zero)]
     \/ \E v \in UnitPrices : currentItem' = [currentItem EXCEPT !.unitPrice = OrElse(v, Zero)]
  /\ last' = Ran("setState", "done", <<>>, <<>>)
  /\ UNCHANGED <<mounted, onPrintReceipt, loginVars, items, photocopyQuantity, photocopyTotalPrice, itemType,
                 summaryVars, parentVars, now>>

\* The two inputs of the photocopy tab
SetPhotocopy ==
  /\ mounted = "ManualInvoice"
  /\ itemType = "photocopy"
  /\ \/ /\ \E v \in PhotocopyQuantities : photocopyQuantity' = OrElse(v, Zero)
        /\ UNCHANGED photocopyTotalPrice
     \/ /\ \E v \in PhotocopyTotalPrices : photocopyTotalPrice' = OrElse(v, Zero)
        /\ UNCHANGED photocopyQuantity
  /\ last' = Ran("setState", "done", <<>>, <<>>)
  /\ UNCHANGED <<mounted, onPrintReceipt, loginVars, items, currentItem, itemType, summaryVars, parentVars, now>>

\* ------------------------------------------------------------------------
\* ManualInvoice: the item list
\* ------------------------------------------------------------------------
RegularInvalid_noName ==
  \/ NonPositive(currentItem.unitPrice)
  \/ NonPositive(currentItem.quantity)
RegularInvalid ==
  \/ currentItem.name = <<>>
  \/ NonPositive(currentItem.unitPrice)
  \/ NonPositive(currentItem.quantity)

\* The row the regular branch builds from the entry fields
RegularItemOf(entry) ==
  [id |-> IntToString(now),
   name |-> entry.name,
   quantity |-> entry.quantity,
   unitPrice |-> entry.unitPrice,
   total |-> NMul(entry.quantity, entry.unitPrice)]

NewRegularItem == RegularItemOf(currentItem)

PhotocopyInvalid == NonPositive(photocopyQuantity) \/ NonPositive(photocopyTotalPrice)

PhotocopyName(q) == <<"Fotocopy ">> \o NumberToString(q) \o <<" lembar">>

NewPhotocopyItem ==
  [id |-> IntToString(now),
   name |-> PhotocopyName(photocopyQuantity),
   quantity |-> photocopyQuantity,
   unitPrice |-> NDiv(photocopyTotalPrice, photocopyQuantity),
   total |-> photocopyTotalPrice]

AddItemError == <<"error", "Nama barang, jumlah, dan harga harus diisi!">>
AddPhotocopyError == <<"error", "Jumlah fotocopy dan harga total harus diisi!">>

\* The regular branch of addItem
AddRegular ==
  IF RegularInvalid
  THEN /\ last' = Ran("addItem", "rejected", AddItemError, <<>>)
       /\ UNCHANGED <<items, currentItem, photocopyQuantity, photocopyTotalPrice>>
  ELSE /\ Len(items) < MaxItems
       /\ items' = Append(items, NewRegularItem)
       /\ currentItem' = EmptyCurrentItem
       /\ last' = Ran("addItem", "done", <<>>, <<>>)
       /\ UNCHANGED <<photocopyQuantity, photocopyTotalPrice>>

\* The photocopy branch of addItem
AddPhotocopy ==
  IF PhotocopyInvalid
  THEN /\ last' = Ran("addItem", "rejected", AddPhotocopyError, <<>>)
       /\ UNCHANGED <<items, currentItem, photocopyQuantity, photocopyTotalPrice>>
  ELSE /\ Len(items) < MaxItems
       /\ items' = Append(items, NewPhotocopyItem)
       /\ photocopyQuantity' = Zero
       /\ photocopyTotalPrice' = Zero
       /\ last' = Ran("addItem", "done", <<>>, <<>>)
       /\ UNCHANGED currentItem

addItem ==
  /\ mounted = "ManualInvoice"
  /\ IF itemType = "regular" THEN AddRegular ELSE AddPhotocopy
  /\ UNCHANGED <<mounted, onPrintReceipt, loginVars, itemType, summaryVars, parentVars, now>>

Ids(list) == {list[i].id : i \in 1..Len(list)}

RemoveFrom(list, id) == SelectSeq(list, LAMBDA item : item.id # id)

removeItem ==
  /\ mounted = "ManualInvoice"
  /\ \E id \in Ids(items) :
       /\ items' = RemoveFrom(items, id)
       /\ last' = Ran("removeItem", "done", <<>>, <<Call("removeItem", <<id>>)>>)
  /\ UNCHANGED <<mounted, onPrintReceipt, loginVars, entryVars, summaryVars, parentVars, now>>

WithQuantity(list, id, quantity) ==
  [i \in 1..Len(list) |->
     IF list[i].id = id
     THEN [list[i] EXCEPT !.quantity = quantity, !.total = NMul(quantity, list[i].unitPrice)]
     ELSE list[i]]

\* if (quantity <= 0) return
QuantityRejected_negative(quantity) == Less(quantity, Zero)
QuantityRejected(quantity) == NonPositive(quantity)

updateItemQuantity ==
  /\ mounted = "ManualInvoice"
  /\ \E id \in Ids(items), quantity \in UpdateQuantities :
       /\ IF QuantityRejected(quantity)
          THEN UNCHANGED items
          ELSE items' = WithQuantity(items, id, quantity)
       /\ last' = Ran("updateItemQuantity",
                      IF QuantityRejected(quantity) THEN "rejected" ELSE "done", <<>>,
                      <<Call("updateItemQuantity", <<id, quantity>>)>>)
  /\ UNCHANGED <<mounted, onPrintReceipt, loginVars, entryVars, summaryVars, parentVars, now>>

\* ------------------------------------------------------------------------
\* ManualInvoice: creating the invoice
\* ------------------------------------------------------------------------
dateStr ==
  PadStart2(IntToString(Today.date)) \o PadStart2(IntToString(Today.month + 1))
    \o SliceLast2(IntToString(Today.fullYear))

counter == Len(receipts) + 1

invoiceId == <<"MANUAL-">> \o IntToString(counter) \o dateStr

cartItems_afterReset == <<>>
cartItems ==
  [i \in 1..Len(items) |->
     [product |-> [id |-> items[i].id,
                   name |-> items[i].name,
                   costPrice |-> Zero,
                   sellPrice |-> items[i].unitPrice,
                   stock |-> Zero,
                   category |-> "Manual",
                   isPhotocopy |-> FALSE],
      quantity |-> items[i].quantity,
      finalPrice |-> items[i].unitPrice]]

receipt_grossProfit ==
  LET Filled(sub, amount, tot) ==
        [id |-> invoiceId,
         items |-> cartItems,
         subtotal |-> sub,
         discount |-> amount,
         total |-> tot,
         profit |-> sub,
         timestamp |-> now,
         paymentMethod |-> paymentMethod]
      Discounted(sub, amount) == Filled(sub, amount, TotalOf(sub, amount))
      Summed(sub) == Discounted(sub, DiscountAmountOf(discountType, sub, discount))
  IN Summed(subtotal)
receipt ==
  LET Filled(sub, amount, tot) ==
        [id |-> invoiceId,
         items |-> cartItems,
         subtotal |-> sub,
         discount |-> amount,
         total |-> tot,
         profit |-> tot,
         timestamp |-> now,
         paymentMethod |-> paymentMethod]
      Discounted(sub, amount) == Filled(sub, amount, TotalOf(sub, amount))
      Summed(sub) == Discounted(sub, DiscountAmountOf(discountType, sub, discount))
  IN Summed(subtotal)

EmptyInvoiceError == <<"error", "Tambahkan minimal satu item!">>
InvoiceCreated(id) == <<"success", "Nota manual ">> \o id \o <<" berhasil dibuat!">>

\* if (items.length === 0)
NoItems_never == FALSE
NoItems == Len(items) = 0

\* How a call of the printer callback (onPrintReceipt, onPrintThermal) can
\* end: it returns, whether the receipt was printed or not, or it throws
PrintOutcomes == {"printed", "failed", "throws"}

\* The outcome of a handler run that called the printer as printing tells,
\* <<>> standing for no call
OutcomeAfter(printing) == IF printing = <<"throws">> THEN "threw" ELSE "done"

\* The body of handleCreateInvoice, run under the name op; printing is <<>>,
\* or holds the outcome of the call by which the caller passes the returned
\* receipt on to onPrintReceipt.  The form is reset before that call.
CreateInvoice(op, printing) ==
  LET Created(r) ==
        /\ Len(receipts) + Len(pending) < MaxReceipts
        /\ pending' = Append(pending, Listed(r))
        /\ kept' = IF kept.holding THEN [kept EXCEPT !.object = <<r>>] ELSE kept
        /\ items' = <<>>
        /\ currentItem' = EmptyCurrentItem
        /\ discount' = Zero
        /\ paymentMethod' = "cash"
        /\ last' = Ran(op, OutcomeAfter(printing), InvoiceCreated(r.id),
                       <<Call("onCreateInvoice", <<r>>)>>
                         \o (IF printing # <<>> THEN <<Call("onPrintReceipt", <<r>>)>>
                             ELSE <<>>))
  IN IF NoItems
     THEN /\ last' = Ran(op, "rejected", EmptyInvoiceError, <<>>)
          /\ UNCHANGED <<items, currentItem, discount, paymentMethod, pending, kept>>
     ELSE Created(receipt)

\* handleCreateInvoice as invoked; its button "Buat Nota Manual" is disabled
\* while the list is empty, the handler checks the list itself
handleCreateInvoice ==
  /\ mounted = "ManualInvoice"
  /\ CreateInvoice("handleCreateInvoice", <<>>)
  /\ UNCHANGED <<mounted, onPrintReceipt, loginVars, photocopyQuantity, photocopyTotalPrice, itemType, discountType,
                 cart, receipts, now>>

\* Button "Buat & Print Nota", rendered while the list has a row
BuatPrintNota ==
  /\ mounted = "ManualInvoice"
  /\ Len(items) > 0
  /\ IF onPrintReceipt
     THEN \E outcome \in PrintOutcomes : CreateInvoice("BuatPrintNota", <<outcome>>)
     ELSE CreateInvoice("BuatPrintNota", <<>>)
  /\ UNCHANGED <<mounted, onPrintReceipt, loginVars, photocopyQuantity, photocopyTotalPrice, itemType, discountType,
                 cart, receipts, now>>

\* The parent adds a receipt it was handed to its list; the prop follows.
ParentAddsReceipt ==
  /\ pending # <<>>
  /\ receipts' = Append(receipts, Head(pending))
  /\ pending' = Tail(pending)
  /\ UNCHANGED <<mounted, onPrintReceipt, loginVars, items, entryVars, summaryVars, cart, kept, now, last>>

\* A millisecond passes
Tick ==
  /\ now < MaxClock
  /\ now' = now + 1
  /\ UNCHANGED <<mounted, onPrintReceipt, loginVars, items, entryVars, summaryVars, parentVars, last>>

\* ------------------------------------------------------------------------
\* The parent's cart store and checkout, behind the props of ShoppingCart
\* ------------------------------------------------------------------------
RemoveLine(c, productId) == SelectSeq(c, LAMBDA line : line.product.id # productId)

\* quantity 0 removes the line; otherwise quantity and, when given, the
\* override price are set in place
SetQuantity(c, productId, quantity, finalPrice) ==
  IF NonPositive(quantity) THEN RemoveLine(c, productId)
  ELSE [i \in 1..Len(c) |->
          IF c[i].product.id = productId
          THEN [c[i] EXCEPT !.quantity = quantity,
                            !.finalPrice = IF finalPrice = Undefined THEN @ ELSE finalPrice]
          ELSE c[i]]

saleId == <<"INV-">> \o IntToString(counter) \o dateStr

\* The receipt processTransaction assembles from the cart and its arguments
SaleReceipt(method, amount) ==
  [id |-> saleId, items |-> cart, discount |-> amount, timestamp |-> now,
   paymentMethod |-> method]

\* ------------------------------------------------------------------------
\* ShoppingCart: handlers
\* ------------------------------------------------------------------------
\* The line cart.find returns for a product id, or 0 when there is none
FindLine(productId) ==
  IF \E i \in 1..Len(cart) : cart[i].product.id = productId
  THEN CHOOSE i \in 1..Len(cart) :
         /\ cart[i].product.id = productId
         /\ \A j \in 1..(i - 1) : cart[j].product.id # productId
  ELSE 0

\* handlePriceChange(productId, newPrice), called as op from the controls in from
PriceChange(op, productId, newPrice, from) ==
  LET i == FindLine(productId)
  IN IF i # 0
     THEN /\ cart' = SetQuantity(cart, productId, cart[i].quantity, newPrice)
          /\ last' = [Ran(op, "done", <<>>,
                          <<Call("updateCartQuantity",
                                 <<productId, cart[i].quantity, newPrice>>)>>)
                        EXCEPT !.received = from]
     ELSE /\ UNCHANGED cart
          /\ last' = [Ran(op, "rejected", <<>>, <<>>) EXCEPT !.received = from]

handlePriceChange ==
  /\ mounted = "ShoppingCart"
  /\ \E productId \in ProductIds, newPrice \in NewPrices :
       PriceChange("handlePriceChange", productId, newPrice, <<>>)
  /\ UNCHANGED <<mounted, onPrintReceipt, loginVars, items, entryVars, summaryVars, receipts, pending, kept, now>>

\* onPriceChange of the QuantitySelector of line i, reporting price
onPriceChange ==
  /\ mounted = "ShoppingCart"
  /\ \E i \in 1..Len(cart), price \in NewPrices :
       PriceChange("onPriceChange", cart[i].product.id, price, <<[line |-> i, price |-> price]>>)
  /\ UNCHANGED <<mounted, onPrintReceipt, loginVars, items, entryVars, summaryVars, receipts, pending, kept, now>>

\* onQuantityChange of the QuantitySelector of line i, reporting quantity
QuantityChanged_alwaysUpdate(i, quantity) ==
  LET item == cart[i]
  IN /\ cart' = SetQuantity(cart, item.product.id, quantity, item.finalPrice)
     /\ last' = Ran("onQuantityChange", "done", <<>>,
                    <<Call("updateCartQuantity",
                           <<item.product.id, quantity, item.finalPrice>>)>>)
QuantityChanged(i, quantity) ==
  LET item == cart[i]
  IN IF quantity = Zero
     THEN /\ cart' = RemoveLine(cart, item.product.id)
          /\ last' = Ran("onQuantityChange", "done", <<>>,
                         <<Call("removeFromCart", <<item.product.id>>)>>)
     ELSE /\ cart' = SetQuantity(cart, item.product.id, quantity, item.finalPrice)
          /\ last' = Ran("onQuantityChange", "done", <<>>,
                         <<Call("updateCartQuantity",
                                <<item.product.id, quantity, item.finalPrice>>)>>)

onQuantityChange ==
  /\ mounted = "ShoppingCart"
  /\ \E i \in 1..Len(cart), quantity \in UpdateQuantities : QuantityChanged(i, quantity)
  /\ UNCHANGED <<mounted, onPrintReceipt, loginVars, items, entryVars, summaryVars, receipts, pending, kept, now>>

\* onRemove of a line's QuantitySelector
onRemove ==
  /\ mounted = "ShoppingCart"
  /\ \E i \in 1..Len(cart) :
       /\ cart' = RemoveLine(cart, cart[i].product.id)
       /\ last' = Ran("onRemove", "done", <<>>,
                      <<Call("removeFromCart", <<cart[i].product.id>>)>>)
  /\ UNCHANGED <<mounted, onPrintReceipt, loginVars, items, entryVars, summaryVars, receipts, pending, kept, now>>

\* Button "Kosongkan Keranjang", rendered below the early return for an
\* empty cart
clearCart ==
  /\ mounted = "ShoppingCart"
  /\ Len(cart) > 0
  /\ cart' = <<>>
  /\ last' = Ran("clearCart", "done", <<>>, <<Call("clearCart", <<>>)>>)
  /\ UNCHANGED <<mounted, onPrintReceipt, loginVars, items, entryVars, summaryVars, receipts, pending, kept, now>>

\* What processTransaction hands back: the parent declares ReceiptType | null,
\* null for an empty cart and, for any other cart, a receipt or null
ProcessReturns == IF Len(cart) = 0 THEN {"null"} ELSE {"receipt", "null"}

\* The body shared by handleCheckout and handleCheckoutAndPrint; returned is
\* what processTransaction handed back, on null nothing further runs; printing is
\* <<>>, or holds the outcome of the call of onPrintThermal, which precedes
\* the reset of the summary card
Checkout(op, printing, returned) ==
  LET Processed(call, r) ==
        IF returned = "null"
        THEN /\ last' = Ran(op, "rejected", <<>>, <<call>>)
             /\ UNCHANGED <<cart, receipts, summaryVars>>
        ELSE /\ Len(receipts) < MaxReceipts
             /\ receipts' = Append(receipts, Listed(r))
             /\ cart' = <<>>
             /\ IF printing = <<"throws">>
                THEN UNCHANGED summaryVars
                ELSE /\ paymentMethod' = "cash"
                     /\ discount' = Zero
                     /\ discountType' = "amount"
             /\ last' = Ran(op, OutcomeAfter(printing), <<>>,
                            <<call>> \o (IF printing # <<>>
                                         THEN <<Call("onPrintThermal", <<r>>)>> ELSE <<>>))
      Called(amount) ==
        Processed(Call("processTransaction", <<paymentMethod, amount>>),
                  SaleReceipt(paymentMethod, amount))
  IN Called(cartDiscountAmount)

\* Button "Checkout", rendered below the early return for an empty cart
handleCheckout ==
  /\ mounted = "ShoppingCart"
  /\ Len(cart) > 0
  /\ \E returned \in ProcessReturns : Checkout("handleCheckout", <<>>, returned)
  /\ UNCHANGED <<mounted, onPrintReceipt, loginVars, items, entryVars, pending, kept, now>>

\* Button "Print Nota", rendered below the early return for an empty cart
handleCheckoutAndPrint ==
  /\ mounted = "ShoppingCart"
  /\ Len(cart) > 0
  /\ \E returned \in ProcessReturns, outcome \in PrintOutcomes :
       Checkout("handleCheckoutAndPrint", <<outcome>>, returned)
  /\ UNCHANGED <<mounted, onPrintReceipt, loginVars, items, entryVars, pending, kept, now>>

\* ------------------------------------------------------------------------
\* ShoppingCart and CartView: the card "Transaksi Terakhir"
\* ------------------------------------------------------------------------
\* a.slice(start): a new array of the elements from index start on, a
\* negative start counting from the end
SliceFrom(a, start) ==
  LET k == IF start < 0 THEN MaxOf(Len(a) + start, 0)
           ELSE IF start > Len(a) THEN Len(a) ELSE start
  IN SubSeq(a, k + 1, Len(a))

\* The elements of a after a.reverse()
Reversed(a) == [i \in 1..Len(a) |-> a[Len(a) + 1 - i]]

\* receipts.slice(-n).reverse(): the value of the expression and the array
\* receipts after its evaluation.  reverse() writes into its receiver, which
\* is the copy made by slice.
HistoryRender_inPlace(log, n) ==
  [shown |-> SubSeq(Reversed(log), 1, IF n < Len(log) THEN n ELSE Len(log)),
   log |-> Reversed(log)]
HistoryRender(log, n) ==
  LET copy == SliceFrom(log, 0 - n)
  IN [shown |-> Reversed(copy), log |-> log]

\* The history card, run under the component name page with its length n
RenderHistory(page, n) ==
  /\ mounted = page
  /\ LET h == HistoryRender(receipts, n)
     IN /\ receipts' = h.log
        /\ last' = Ran("render", "done", <<>>, <<Call("map", <<h.shown>>)>>)
  /\ UNCHANGED <<mounted, onPrintReceipt, loginVars, items, entryVars, summaryVars, cart, pending, kept, now>>

RenderShoppingCart == RenderHistory("ShoppingCart", 3)

RenderCartView == RenderHistory("CartView", 10)

\* The receipts prop as the parent can pass it: entry i carries the id of a
\* manual invoice or of a sale with sequence number i
Logs ==
  UNION {{[i \in 1..n |-> [id |-> <<f[i]>> \o IntToString(i) \o dateStr]] :
            f \in [1..n -> {"MANUAL-", "INV-"}]} : n \in 0..MaxLog}

\* ------------------------------------------------------------------------
\* LoginPage: state, inputs and the gateway
\* ------------------------------------------------------------------------
EmptyFormData ==
  [email |-> <<>>, username |-> <<>>, password |-> <<>>, confirmPassword |-> <<>>,
   displayName |-> <<>>]

NoneInflight == [h \in {"handleSignIn", "handleSignUp", "handleForgotPassword"} |-> 0]

\* The state of LoginPage after construction
LoginMounted ==
  /\ isSignUp = FALSE
  /\ formData = EmptyFormData
  /\ error = ""
  /\ isLoading = FALSE
  /\ showForgotPassword = FALSE
  /\ resetEmail = <<>>
  /\ inflight = NoneInflight

\* What the user can type, as sequences of characters
Identifiers == {<<>>, <<"a", "@", "b">>, <<"k", "a", "s", "i", "r">>}
Usernames == {<<>>, <<"u">>}
Passwords == {<<>>, <<"p">>}
DisplayNames == {<<>>, <<"d">>}
ResetEmails == {<<>>, <<"a", "@", "b">>}

\* s.includes(c)
Includes_firstOnly(s, c) == Len(s) > 0 /\ s[1] = c

Includes(s, c) == \E i \in 1..Len(s) : s[i] = c

\* An error object of the gateway: a one-element sequence, <<>> for null
NoError == <<>>
ErrorOf(message) == <<[message |-> message]>>

\* How a call of signIn, signInWithUsername or signUp can end
AuthOutcomes ==
  {[kind |-> "returns", result |-> [error |-> NoError]],
   [kind |-> "returns", result |-> [error |-> ErrorOf("Invalid login credentials")]],
   [kind |-> "throws", thrown |-> [message |-> "Failed to fetch"]]}

\* How a call of supabase.functions.invoke('reset-password', ...) can end
ResetOutcomes ==
  {[kind |-> "returns", result |-> [data |-> [error |-> "", message |-> "Email terkirim"],
                                    error |-> NoError]],
   [kind |-> "returns", result |-> [data |-> [error |-> "Email tidak terdaftar", message |-> ""],
                                    error |-> NoError]],
   [kind |-> "returns", result |-> [data |-> [error |-> "", message |-> ""],
                                    error |-> ErrorOf("Function error")]],
   [kind |-> "throws", thrown |-> [message |-> "Failed to fetch"]],
   [kind |-> "throws", thrown |-> [message |-> ""]]}

Total(f) == f["handleSignIn"] + f["handleSignUp"] + f["handleForgotPassword"]

Suspend(h) == [inflight EXCEPT ![h] = @ + 1]
Resume(h) == [inflight EXCEPT ![h] = @ - 1]

\* ------------------------------------------------------------------------
\* LoginPage: inputs and form switches
\* ------------------------------------------------------------------------
\* The inputs of the login and sign-up forms
SetFormData ==
  /\ mounted = "LoginPage"
  /\ ~showForgotPassword
  /\ \/ /\ isSignUp
        /\ \/ \E v \in DisplayNames : formData' = [formData EXCEPT !.displayName = v]
           \/ \E v \in Usernames : formData' = [formData EXCEPT !.username = v]
           \/ \E v \in Passwords : formData' = [formData EXCEPT !.confirmPassword = v]
     \/ \E v \in Identifiers : formData' = [formData EXCEPT !.email = v]
     \/ \E v \in Passwords : formData' = [formData EXCEPT !.password = v]
  /\ last' = Ran("setState", "done", <<>>, <<>>)
  /\ UNCHANGED <<mounted, onPrintReceipt, items, entryVars, summaryVars, parentVars, isSignUp, error,
                 isLoading, showForgotPassword, resetEmail, inflight, now>>

\* The input of the password-reset form
SetResetEmail ==
  /\ mounted = "LoginPage"
  /\ showForgotPassword
  /\ \E v \in ResetEmails : resetEmail' = v
  /\ last' = Ran("setState", "done", <<>>, <<>>)
  /\ UNCHANGED <<mounted, onPrintReceipt, items, entryVars, summaryVars, parentVars, isSignUp, formData,
                 error, isLoading, showForgotPassword, inflight, now>>

\* Button "Belum punya akun? Daftar" / "Sudah punya akun? Login"
ToggleSignUp ==
  /\ mounted = "LoginPage"
  /\ ~showForgotPassword
  /\ isSignUp' = ~isSignUp
  /\ error' = ""
  /\ formData' = EmptyFormData
  /\ last' = Ran("setState", "done", <<>>, <<>>)
  /\ UNCHANGED <<mounted, onPrintReceipt, items, entryVars, summaryVars, parentVars, isLoading,
                 showForgotPassword, resetEmail, inflight, now>>

\* Button "Lupa Password?"
OpenForgotPassword ==
  /\ mounted = "LoginPage"
  /\ ~showForgotPassword
  /\ ~isSignUp
  /\ showForgotPassword' = TRUE
  /\ last' = Ran("setState", "done", <<>>, <<>>)
  /\ UNCHANGED <<mounted, onPrintReceipt, items, entryVars, summaryVars, parentVars, isSignUp, formData,
                 error, isLoading, resetEmail, inflight, now>>

\* Button "Kembali ke Login" of the password-reset form
BackToLogin ==
  /\ mounted = "LoginPage"
  /\ showForgotPassword
  /\ showForgotPassword' = FALSE
  /\ error' = ""
  /\ resetEmail' = <<>>
  /\ last' = Ran("setState", "done", <<>>, <<>>)
  /\ UNCHANGED <<mounted, onPrintReceipt, items, entryVars, summaryVars, parentVars, isSignUp, formData,
                 isLoading, inflight, now>>

\* ------------------------------------------------------------------------
\* LoginPage: the submit handlers, each up to its await and from it on
\* ------------------------------------------------------------------------
\* handleSignIn up to the await
handleSignIn ==
  /\ mounted = "LoginPage"
  /\ ~showForgotPassword
  /\ ~isSignUp
  /\ Total(inflight) < MaxInflight
  /\ isLoading' = TRUE
  /\ error' = ""
  /\ inflight' = Suspend("handleSignIn")
  /\ last' = Ran("handleSignIn", "awaiting", <<>>,
                 <<Call(IF Includes(formData.email, "@") THEN "signIn" ELSE "signInWithUsername",
                        <<formData.email, formData.password>>)>>)
  /\ UNCHANGED <<mounted, onPrintReceipt, items, entryVars, summaryVars, parentVars, isSignUp, formData,
                 showForgotPassword, resetEmail, now>>

\* handleSignIn after the await: the call returned a result or threw
SignInSettled ==
  /\ mounted = "LoginPage"
  /\ inflight["handleSignIn"] > 0
  /\ inflight' = Resume("handleSignIn")
  /\ \E outcome \in AuthOutcomes :
       IF outcome.kind = "throws"
       THEN /\ last' = Resumed("handleSignIn", "threw", <<>>, outcome)
            /\ UNCHANGED <<error, isLoading>>
       ELSE /\ error' = IF outcome.result.error # NoError
                        THEN outcome.result.error[1].message ELSE error
            /\ isLoading' = FALSE
            /\ last' = Resumed("handleSignIn", "done", <<>>, outcome)
  /\ UNCHANGED <<mounted, onPrintReceipt, items, entryVars, summaryVars, parentVars, isSignUp, formData,
                 showForgotPassword, resetEmail, now>>

PasswordMismatch == formData.password # formData.confirmPassword

FieldMissing_noDisplayName ==
  \/ formData.email = <<>>
  \/ formData.username = <<>>
  \/ formData.password = <<>>

FieldMissing ==
  \/ formData.email = <<>>
  \/ formData.username = <<>>
  \/ formData.password = <<>>
  \/ formData.displayName = <<>>

\* handleSignUp up to the await, or to the return of a failed validation
handleSignUp ==
  /\ mounted = "LoginPage"
  /\ ~showForgotPassword
  /\ isSignUp
  /\ IF PasswordMismatch
     THEN /\ error' = "Password tidak cocok"
          /\ isLoading' = FALSE
          /\ last' = Ran("handleSignUp", "rejected", <<>>, <<>>)
          /\ UNCHANGED inflight
     ELSE IF FieldMissing
     THEN /\ error' = "Semua field harus diisi"
          /\ isLoading' = FALSE
          /\ last' = Ran("handleSignUp", "rejected", <<>>, <<>>)
          /\ UNCHANGED inflight
     ELSE /\ Total(inflight) < MaxInflight
          /\ isLoading' = TRUE
          /\ error' = ""
          /\ inflight' = Suspend("handleSignUp")
          /\ last' = Ran("handleSignUp", "awaiting", <<>>,
                         <<Call("signUp", <<formData.email, formData.username,
                                            formData.password, formData.displayName>>)>>)
  /\ UNCHANGED <<mounted, onPrintReceipt, items, entryVars, summaryVars, parentVars, isSignUp, formData,
                 showForgotPassword, resetEmail, now>>

AccountCreated ==
  <<"success", "Akun berhasil dibuat! Silakan login dengan username dan password Anda.">>

\* handleSignUp after the await
SignUpSettled ==
  /\ mounted = "LoginPage"
  /\ inflight["handleSignUp"] > 0
  /\ inflight' = Resume("handleSignUp")
  /\ \E outcome \in AuthOutcomes :
       IF outcome.kind = "throws"
       THEN /\ last' = Resumed("handleSignUp", "threw", <<>>, outcome)
            /\ UNCHANGED <<error, isLoading, isSignUp, formData>>
       ELSE IF outcome.result.error # NoError
       THEN /\ error' = outcome.result.error[1].message
            /\ isLoading' = FALSE
            /\ last' = Resumed("handleSignUp", "done", <<>>, outcome)
            /\ UNCHANGED <<isSignUp, formData>>
       ELSE /\ isSignUp' = FALSE
            /\ formData' = EmptyFormData
            /\ isLoading' = FALSE
            /\ last' = Resumed("handleSignUp", "done", AccountCreated, outcome)
            /\ UNCHANGED error
  /\ UNCHANGED <<mounted, onPrintReceipt, items, entryVars, summaryVars, parentVars, showForgotPassword,
                 resetEmail, now>>

\* handleForgotPassword up to the await
handleForgotPassword ==
  /\ mounted = "LoginPage"
  /\ showForgotPassword
  /\ Total(inflight) < MaxInflight
  /\ isLoading' = TRUE
  /\ error' = ""
  /\ inflight' = Suspend("handleForgotPassword")
  /\ last' = Ran("handleForgotPassword", "awaiting", <<>>,
                 <<Call("invoke", <<"reset-password", [body |-> [email |-> resetEmail]]>>)>>)
  /\ UNCHANGED <<mounted, onPrintReceipt, items, entryVars, summaryVars, parentVars, isSignUp, formData,
                 showForgotPassword, resetEmail, now>>

ResetFailed == "Terjadi kesalahan saat mengirim email reset password"

\* The error the catch block receives: what invoke threw, or the error of the
\* result, thrown by the handler
Caught(outcome) ==
  IF outcome.kind = "throws" THEN <<outcome.thrown>> ELSE outcome.result.error

\* handleForgotPassword after the await: try, catch, finally
ForgotPasswordSettled ==
  /\ mounted = "LoginPage"
  /\ inflight["handleForgotPassword"] > 0
  /\ inflight' = Resume("handleForgotPassword")
  /\ \E outcome \in ResetOutcomes :
       IF Caught(outcome) # <<>>
       THEN /\ error' = IF Caught(outcome)[1].message # ""
                        THEN Caught(outcome)[1].message ELSE ResetFailed
            /\ last' = Resumed("handleForgotPassword", "caught", <<>>, outcome)
            /\ UNCHANGED <<showForgotPassword, resetEmail>>
       ELSE IF outcome.result.data.error # ""
       THEN /\ error' = outcome.result.data.error
            /\ last' = Resumed("handleForgotPassword", "done", <<>>, outcome)
            /\ UNCHANGED <<showForgotPassword, resetEmail>>
       ELSE /\ showForgotPassword' = FALSE
            /\ resetEmail' = <<>>
            /\ last' = Resumed("handleForgotPassword", "done",
                                <<"success", outcome.result.data.message>>, outcome)
            /\ UNCHANGED error
  /\ isLoading' = FALSE
  /\ UNCHANGED <<mounted, onPrintReceipt, items, entryVars, summaryVars, parentVars, isSignUp, formData, now>>

\* ------------------------------------------------------------------------
\* LoginPage: the submit event of the two forms
\* ------------------------------------------------------------------------
SubmitEnabled_always == TRUE

\* The submit buttons are disabled while isLoading
SubmitEnabled == ~isLoading

\* The characters of the e-mail grammar of HTML: letters and digits, and the
\* further characters of the part before the "@" (the grave accent, which no
\* string of this module can hold, is left out)
LetDig ==
  {"a", "b", "c", "d", "e", "f", "g", "h", "i", "j", "k", "l", "m", "n", "o", "p", "q",
   "r", "s", "t", "u", "v", "w", "x", "y", "z", "A", "B", "C", "D", "E", "F", "G", "H",
   "I", "J", "K", "L", "M", "N", "O", "P", "Q", "R", "S", "T", "U", "V", "W", "X", "Y",
   "Z", "0", "1", "2", "3", "4", "5", "6", "7", "8", "9"}
AText ==
  LetDig \cup {"!", "#", "$", "%", "&", "'", "*", "+", "-", "/", "=", "?", "^", "_", "{", "|", "}",
               "~"}

\* The value of an input of type "email": line breaks are removed from what
\* was set, then the white space at both ends
RECURSIVE StripLeft(_)
StripLeft(s) ==
  IF s # <<>> /\ s[1] \in {" ", "\t", "\f"} THEN StripLeft(Tail(s)) ELSE s

RECURSIVE StripRight(_)
StripRight(s) ==
  IF s # <<>> /\ s[Len(s)] \in {" ", "\t", "\f"}
  THEN StripRight(SubSeq(s, 1, Len(s) - 1)) ELSE s

EmailValue(s) == StripRight(StripLeft(SelectSeq(s, LAMBDA c : c \notin {"\n", "\r"})))

\* The e-mail grammar: one "@"; before it one or more of AText and "."; after
\* it labels separated by ".", each of 1 to 63 letters, digits and "-" that
\* neither begins nor ends with "-"
EmailGrammar(v) ==
  /\ Cardinality({i \in 1..Len(v) : v[i] = "@"}) = 1
  /\ LET at == CHOOSE i \in 1..Len(v) : v[i] = "@"
         name == SubSeq(v, 1, at - 1)
         domain == SubSeq(v, at + 1, Len(v))
         n == Len(domain)
     IN /\ name # <<>>
        /\ \A i \in 1..Len(name) : name[i] \in AText \cup {"."}
        /\ domain # <<>>
        /\ \A i \in 1..n :
             /\ domain[i] \in LetDig \cup {"-", "."}
             /\ domain[i] \in {"-", "."} =>
                  /\ i > 1 /\ i < n
                  /\ domain[i - 1] # "." /\ domain[i + 1] # "."
             /\ domain[i] = "." => domain[i - 1] # "-" /\ domain[i + 1] # "-"
        /\ \A i \in 1..(n - 63) : \E j \in i..(i + 63) : domain[j] = "."

\* An input of type "email" is valid when its value is an e-mail address
ValidEmail(s) == EmailGrammar(EmailValue(s))

\* Every input shown is required; the sign-up form shows the email input of
\* type "email", the login form the identifier input of type "text"
FormValid ==
  /\ formData.password # <<>>
  /\ IF isSignUp
     THEN /\ formData.displayName # <<>>
          /\ ValidEmail(formData.email)
          /\ formData.username # <<>>
          /\ formData.confirmPassword # <<>>
     ELSE formData.email # <<>>

ResetFormValid == ValidEmail(resetEmail)

\* Submit of the login/sign-up form with the button "Masuk"
SubmitSignIn ==
  /\ SubmitEnabled
  /\ FormValid
  /\ handleSignIn

\* Submit of the login/sign-up form with the button "Daftar"
SubmitSignUp ==
  /\ SubmitEnabled
  /\ FormValid
  /\ handleSignUp

\* Submit of the password-reset form with the button "Kirim Email Reset"
SubmitForgotPassword ==
  /\ SubmitEnabled
  /\ ResetFormValid
  /\ handleForgotPassword

\* ------------------------------------------------------------------------
\* Specifications
\* ------------------------------------------------------------------------
Init ==
  /\ mounted \in {"ManualInvoice", "ShoppingCart", "CartView", "LoginPage"}
  /\ onPrintReceipt \in IF mounted = "ManualInvoice" THEN BOOLEAN ELSE {FALSE}
  /\ items = <<>>
  /\ currentItem = EmptyCurrentItem
  /\ photocopyQuantity = Zero
  /\ photocopyTotalPrice = Zero
  /\ itemType = "regular"
  /\ paymentMethod = "cash"
  /\ discount = Zero
  /\ discountType = "amount"
  /\ cart \in IF mounted \in {"ShoppingCart", "CartView"} THEN InitialCarts ELSE {<<>>}
  /\ receipts = <<>>
  /\ pending = <<>>
  /\ kept = [holding |-> FALSE, object |-> <<>>]
  /\ LoginMounted
  /\ now = 0
  /\ last = Ran("mount", "done", <<>>, <<>>)

\* The item list of the manual form: both tabs, the list handlers, the clock
NextItems ==
  \/ SetItemType
  \/ SetCurrentItem
  \/ SetPhotocopy
  \/ addItem
  \/ removeItem
  \/ updateItemQuantity
  \/ Tick

InitItems == Init /\ mounted = "ManualInvoice"

SpecItems == InitItems /\ [][NextItems]_vars

\* A sale from entry to receipt: regular rows or cart lines, the summary card,
\* invoice creation and checkout, the parent's list of receipts
NextSale ==
  \/ SetCurrentItem
  \/ addItem
  \/ removeItem
  \/ updateItemQuantity
  \/ SetPaymentMethod
  \/ SetDiscount
  \/ SetDiscountType
  \/ handleCreateInvoice
  \/ BuatPrintNota
  \/ ParentAddsReceipt
  \/ handlePriceChange
  \/ onPriceChange
  \/ onQuantityChange
  \/ onRemove
  \/ clearCart
  \/ handleCheckout
  \/ handleCheckoutAndPrint

SpecSale == Init /\ [][NextSale]_vars

\* The history card of the two cart pages over every log the parent can pass
InitHistory ==
  /\ mounted \in {"ShoppingCart", "CartView"}
  /\ onPrintReceipt = FALSE
  /\ items = <<>>
  /\ currentItem = EmptyCurrentItem
  /\ photocopyQuantity = Zero
  /\ photocopyTotalPrice = Zero
  /\ itemType = "regular"
  /\ paymentMethod = "cash"
  /\ discount = Zero
  /\ discountType = "amount"
  /\ cart = <<>>
  /\ receipts \in Logs
  /\ pending = <<>>
  /\ kept = [holding |-> FALSE, object |-> <<>>]
  /\ LoginMounted
  /\ now = 0
  /\ last = Ran("mount", "done", <<>>, <<>>)

NextHistory ==
  \/ RenderShoppingCart
  \/ RenderCartView

SpecHistory == InitHistory /\ [][NextHistory]_vars

\* The login page: the three forms, their submits and the gateway's answers
InitLogin == Init /\ mounted = "LoginPage"

NextLogin ==
  \/ SetFormData
  \/ SetResetEmail
  \/ ToggleSignUp
  \/ OpenForgotPassword
  \/ BackToLogin
  \/ handleSignIn
  \/ SignInSettled
  \/ handleSignUp
  \/ SignUpSettled
  \/ handleForgotPassword
  \/ ForgotPasswordSettled

SpecLogin == InitLogin /\ [][NextLogin]_vars

\* Every gateway call settles: a suspended handler run is resumed eventually
SpecLoginLive ==
  /\ SpecLogin
  /\ WF_vars(SignInSettled)
  /\ WF_vars(SignUpSettled)
  /\ WF_vars(ForgotPasswordSettled)

\* A manual invoice from both tabs to the receipt: rows of either kind,
\* quantity edits, invoice creation
NextInvoice ==
  \/ SetItemType
  \/ SetCurrentItem
  \/ SetPhotocopy
  \/ addItem
  \/ updateItemQuantity
  \/ handleCreateInvoice

SpecInvoice == InitItems /\ [][NextInvoice]_vars

\* The login page driven through its forms: a handler runs when its form is
\* submitted, which the disabled button and the required inputs can prevent
NextLoginForm ==
  \/ SetFormData
  \/ SetResetEmail
  \/ ToggleSignUp
  \/ OpenForgotPassword
  \/ BackToLogin
  \/ SubmitSignIn
  \/ SignInSettled
  \/ SubmitSignUp
  \/ SignUpSettled
  \/ SubmitForgotPassword
  \/ ForgotPasswordSettled

SpecLoginForm == InitLogin /\ [][NextLoginForm]_vars

Next ==
  \/ NextItems
  \/ NextSale
  \/ NextHistory
  \/ NextLogin
  \/ NextLoginForm
  \/ NextInvoice

Spec == Init /\ [][Next]_vars

\* The manual form under a parent that holds on to the receipt object it was
\* handed: regular rows, the discount, invoice creation
InitSnapshot ==
  /\ mounted = "ManualInvoice"
  /\ onPrintReceipt \in BOOLEAN
  /\ items = <<>>
  /\ currentItem = EmptyCurrentItem
  /\ photocopyQuantity = Zero
  /\ photocopyTotalPrice = Zero
  /\ itemType = "regular"
  /\ paymentMethod = "cash"
  /\ discount = Zero
  /\ discountType = "amount"
  /\ cart = <<>>
  /\ receipts = <<>>
  /\ pending = <<>>
  /\ kept = [holding |-> TRUE, object |-> <<>>]
  /\ LoginMounted
  /\ now = 0
  /\ last = Ran("mount", "done", <<>>, <<>>)

NextSnapshot ==
  \/ SetCurrentItem
  \/ addItem
  \/ removeItem
  \/ updateItemQuantity
  \/ SetDiscount
  \/ SetDiscountType
  \/ handleCreateInvoice
  \/ ParentAddsReceipt

SpecSnapshot == InitSnapshot /\ [][NextSnapshot]_vars

\* ------------------------------------------------------------------------
\* Properties
\* ------------------------------------------------------------------------
\* The receipts the latest handler run handed to the callback fn
Handed(fn) == {last.calls[i].args[1] : i \in {j \in 1..Len(last.calls) : last.calls[j].fn = fn}}

\* max(0, s - d) of two integers, in integer arithmetic
IntTotal(s, d) == IF s.sign * s.int - d.sign * d.int > 0
                  THEN Num(s.sign * s.int - d.sign * d.int) ELSE Zero

\* C1: in the manual form and in the cart the total on screen equals
\* max(0, subtotal - discountAmount) and is never negative, also when the
\* discount exceeds the subtotal, and every receipt handed to onCreateInvoice
\* has a total that is not negative.
C1_TotalNeverNegative ==
  /\ mounted = "ManualInvoice" =>
       /\ IsInteger(subtotal) /\ IsInteger(discountAmount)
       /\ total = IntTotal(subtotal, discountAmount)
       /\ Leq(Zero, total)
  /\ mounted = "ShoppingCart" =>
       /\ IsInteger(cartSubtotal) /\ IsInteger(cartDiscountAmount)
       /\ cartTotal = IntTotal(cartSubtotal, cartDiscountAmount)
       /\ Leq(Zero, cartTotal)
  /\ \A r \in Handed("onCreateInvoice") :
       /\ r.total = IntTotal(r.subtotal, r.discount)
       /\ Leq(Zero, r.total)

\* An invoice was created with a discount above its subtotal; its total is 0.
C1_Witness ==
  /\ last.op = "handleCreateInvoice"
  /\ \E r \in Handed("onCreateInvoice") :
       /\ Less(Zero, r.subtotal)
       /\ Less(r.subtotal, r.discount)
       /\ r.total = Zero

\* round(n / 100) of an integer n >= 0, ties upward
RoundHalfUp(n) == (n \div 100) + (IF n % 100 >= 50 THEN 1 ELSE 0)
\* round(n / 100) of an integer n >= 0, ties to the even neighbour
RoundHalfEven(n) ==
  (n \div 100) + (IF n % 100 > 50 \/ (n % 100 = 50 /\ (n \div 100) % 2 = 1) THEN 1 ELSE 0)

PercentAsClaimed(s, p, d) ==
  /\ d \in {Num(RoundHalfUp(s.int * p.int)), Num(RoundHalfEven(s.int * p.int))}
  /\ Leq(Zero, d)
  /\ Leq(d, s)

\* C2: in percent mode, for a subtotal S and a percent value p in [0,100],
\* discountAmount = round(S * p / 100), under round-half-up or under
\* round-half-to-even, and 0 <= discountAmount <= S.
C2_PercentDiscountIsRounded ==
  discountType = "percent" =>
    /\ mounted = "ManualInvoice" => PercentAsClaimed(subtotal, discount, discountAmount)
    /\ mounted = "ShoppingCart" => PercentAsClaimed(cartSubtotal, discount, cartDiscountAmount)

AmountAsClaimed(s, d) == Leq(Zero, d) /\ Leq(d, s)

\* C3: in amount mode the discount amount the total is computed from, the
\* one recorded in the receipt and the one passed to processTransaction lie
\* in [0, subtotal].
C3_AmountDiscountWithinSubtotal ==
  /\ (discountType = "amount" /\ mounted = "ManualInvoice") =>
       /\ AmountAsClaimed(subtotal, discountAmount)
       /\ \A r \in Handed("onCreateInvoice") : AmountAsClaimed(r.subtotal, r.discount)
  /\ (discountType = "amount" /\ mounted = "ShoppingCart") =>
       AmountAsClaimed(cartSubtotal, cartDiscountAmount)

\* A step of one of the two buttons that run handleCreateInvoice
CreateStep ==
  /\ mounted = "ManualInvoice"
  /\ last'.op \in {"handleCreateInvoice", "BuatPrintNota"}
  /\ last' # last \/ Len(pending') > Len(pending)

\* C4: handleCreateInvoice on an empty item list fails validation: the error
\* toast is shown, neither onCreateInvoice nor onPrintReceipt is called, no
\* receipt is returned or handed on, and items, discount and payment method
\* are unchanged.
C4_EmptyInvoiceRejected ==
  [][(CreateStep /\ Len(items) = 0) =>
       /\ last'.outcome = "rejected"
       /\ last'.toast = <<"error", "Tambahkan minimal satu item!">>
       /\ last'.calls = <<>>
       /\ pending' = pending /\ receipts' = receipts
       /\ items' = items /\ discount' = discount /\ paymentMethod' = paymentMethod]_vars

\* handleCreateInvoice ran on an empty list while a discount and a payment
\* method were selected; both are still there.
C4_Witness ==
  /\ last.op = "handleCreateInvoice"
  /\ last.outcome = "rejected"
  /\ items = <<>>
  /\ discount = Num(70)
  /\ paymentMethod = "qris"

\* The subtotal of a cart with the override price used whenever the line
\* carries one
RECURSIVE SumWithOverride(_, _)
SumWithOverride(c, i) ==
  IF i > Len(c) THEN 0
  ELSE (IF c[i].finalPrice # Undefined THEN c[i].finalPrice.int ELSE c[i].product.sellPrice.int)
         * c[i].quantity.int + SumWithOverride(c, i + 1)

\* C5: the subtotal of ShoppingCart and of CartView is the sum over the lines
\* of effective price times quantity, the effective price being finalPrice
\* whenever the line has one, 0 included, and sellPrice otherwise.
C5_OverridePriceWhenPresent ==
  mounted = "ShoppingCart" =>
    /\ cartSubtotal = Num(SumWithOverride(cart, 1))
    /\ cartViewSubtotal = Num(SumWithOverride(cart, 1))

\* C6: every row of the manual item list has total = quantity * unitPrice,
\* quantity >= 1 and unitPrice > 0.
C6_RowTotalIsProduct ==
  \A i \in 1..Len(items) :
    /\ items[i].total = NMul(items[i].quantity, items[i].unitPrice)
    /\ items[i].total = ExactMul(items[i].quantity, items[i].unitPrice)
    /\ Leq(Num(1), items[i].quantity)
    /\ Less(Zero, items[i].unitPrice)

\* A step of addItem: it reports a rejection or the list grows
AddStep ==
  /\ last'.op = "addItem"
  /\ last' # last \/ items' # items

\* A step of addItem on the photocopy tab that passed validation
PhotocopyAdded ==
  /\ AddStep
  /\ itemType = "photocopy"
  /\ Less(Zero, photocopyQuantity)
  /\ Less(Zero, photocopyTotalPrice)

SheetsName(n) == <<"Fotocopy ">> \o IntToString(n) \o <<" lembar">>

\* C7: the photocopy path of addItem, given a sheet count N > 0 and an
\* amount > 0, appends a single row whose name encodes N, whose quantity is 1
\* and whose unit price is the full amount.
C7_PhotocopyRowAsStated ==
  [][PhotocopyAdded =>
       /\ Len(items') = Len(items) + 1
       /\ SubSeq(items', 1, Len(items)) = items
       /\ items'[Len(items')].name = SheetsName(photocopyQuantity.int)
       /\ items'[Len(items')].quantity = Num(1)
       /\ items'[Len(items')].unitPrice = photocopyTotalPrice]_vars

\* A step of addItem on the regular tab
RegularAddStep == AddStep /\ itemType = "regular"

\* The three constraints on the entry fields of the regular tab
EntryValid ==
  /\ Len(currentItem.name) > 0
  /\ currentItem.quantity.sign = 1 /\ currentItem.quantity.int > 0
  /\ currentItem.unitPrice.sign = 1 /\ currentItem.unitPrice.int > 0

\* C8: addItem on the regular tab accepts a row only when the name is not
\* empty, quantity > 0 and unitPrice > 0.  When a constraint fails the list
\* and the entry fields are unchanged and the error toast is shown; when all
\* hold exactly one row is appended at the end, the rows before it are
\* unchanged, its total is quantity * unitPrice, and the entry fields are
\* cleared.
C8_RegularAddValidated ==
  [][RegularAddStep =>
       IF EntryValid
       THEN /\ Len(items') = Len(items) + 1
            /\ SubSeq(items', 1, Len(items)) = items
            /\ items'[Len(items')].name = currentItem.name
            /\ items'[Len(items')].quantity = currentItem.quantity
            /\ items'[Len(items')].unitPrice = currentItem.unitPrice
            /\ items'[Len(items')].total = Num(currentItem.quantity.int * currentItem.unitPrice.int)
            /\ currentItem' = [name |-> <<>>, quantity |-> Num(0), unitPrice |-> Num(0)]
       ELSE /\ items' = items
            /\ currentItem' = currentItem
            /\ photocopyQuantity' = photocopyQuantity
            /\ photocopyTotalPrice' = photocopyTotalPrice
            /\ last'.outcome = "rejected"
            /\ last'.toast[1] = "error"]_vars

\* A regular row was accepted as the second row of the list and the entry
\* fields are empty again.
C8_Witness ==
  /\ last.op = "addItem" /\ last.outcome = "done"
  /\ Len(items) = 2
  /\ items[2].name = <<"a">>
  /\ items[2].total = Num(45)
  /\ currentItem = [name |-> <<>>, quantity |-> Num(0), unitPrice |-> Num(0)]

\* A step of updateItemQuantity called with a quantity <= 0
UpdateToNonPositive ==
  /\ last'.op = "updateItemQuantity"
  /\ last' # last \/ items' # items
  /\ last'.calls[1].args[2].sign = -1 \/ last'.calls[1].args[2] = Num(0)

\* C9: updateItemQuantity with a quantity <= 0 leaves the item list
\* unchanged, and the list loses a row only in a step of removeItem or of a
\* successful invoice creation.
C9_ZeroQuantityRejected ==
  [][/\ UpdateToNonPositive => items' = items /\ last'.outcome = "rejected"
     /\ Len(items') < Len(items) =>
          \/ last'.op = "removeItem"
          \/ /\ last'.op \in {"handleCreateInvoice", "BuatPrintNota"}
             /\ Len(pending') > Len(pending)]_vars

\* The minus button was pressed on a row of quantity 1; the row is still
\* there with quantity 1.
C9_Witness ==
  /\ last.op = "updateItemQuantity"
  /\ last.outcome = "rejected"
  /\ last.calls[1].args[2] = Num(0)
  /\ Len(items) = 1
  /\ items[1].quantity = Num(1)

\* The identifiers of the manual invoices created so far, in creation order
CreatedIds ==
  LET all == receipts \o pending
  IN [i \in 1..Len(all) |-> all[i].id]

\* C10: the receipts created by handleCreateInvoice on one day have pairwise
\* distinct identifiers of the form MANUAL-<n><DDMMYY>, whatever the order
\* of invoice creations and of the parent's updates of the receipts prop.
C10_InvoiceIdsDistinct ==
  mounted = "ManualInvoice" =>
    /\ \A i \in 1..Len(CreatedIds) :
         /\ CreatedIds[i][1] = "MANUAL-"
         /\ SubSeq(CreatedIds[i], Len(CreatedIds[i]) - 5, Len(CreatedIds[i]))
              = <<"0", "5", "0", "1", "2", "6">>
    /\ \A i, j \in 1..Len(CreatedIds) : i # j => CreatedIds[i] # CreatedIds[j]

\* C11: the rows of the manual item list have pairwise distinct ids, so
\* removeItem(id) removes at most one row and updateItemQuantity(id, q)
\* changes at most one row.
C11_RowIdsDistinct ==
  /\ \A i, j \in 1..Len(items) : i # j => items[i].id # items[j].id
  /\ \A id \in Ids(items) :
       /\ Len(RemoveFrom(items, id)) >= Len(items) - 1
       /\ \A q \in UpdateQuantities :
            Cardinality({i \in 1..Len(items) : WithQuantity(items, id, q)[i] # items[i]}) <= 1

\* A step in which handleCreateInvoice hands a receipt to onCreateInvoice
Creation == Len(pending') > Len(pending)

\* C12: the receipt handed to onCreateInvoice is a snapshot.  At creation its
\* items are the rows of the form, its subtotal, discount, total and profit
\* the values on screen; afterwards no addItem, removeItem,
\* updateItemQuantity, discount edit or form reset changes any of them.
C12_ReceiptIsSnapshot ==
  [][/\ (kept.object # <<>> /\ ~Creation) => kept'.object = kept.object
     /\ Creation =>
          LET r == kept'.object[1]
          IN /\ Len(r.items) = Len(items)
             /\ \A i \in 1..Len(items) :
                  /\ r.items[i].product.id = items[i].id
                  /\ r.items[i].product.name = items[i].name
                  /\ r.items[i].product.sellPrice = items[i].unitPrice
                  /\ r.items[i].quantity = items[i].quantity
                  /\ r.items[i].finalPrice = items[i].unitPrice
             /\ r.subtotal = subtotal
             /\ r.discount = discountAmount
             /\ r.total = total
             /\ r.profit = total
             /\ items' = <<>>]_vars

\* A receipt of two rows without discount is held while the form already
\* has one new row and a discount of 70.
C12_Witness ==
  /\ kept.object # <<>>
  /\ Len(kept.object[1].items) = 2
  /\ kept.object[1].discount = Zero
  /\ kept.object[1].subtotal = Num(90)
  /\ Len(items) = 1
  /\ discount = Num(70)

\* C13: every receipt of the manual form has profit = total, which is
\* max(0, subtotal - discount), and every item in it has cost price 0; a row
\* of 50 at 200 with a percent discount of 0 gives subtotal, total and
\* profit 10000.
C13_ProfitIsTotal ==
  /\ \A r \in Handed("onCreateInvoice") :
       /\ r.profit = r.total
       /\ r.profit = IntTotal(r.subtotal, r.discount)
       /\ \A i \in 1..Len(r.items) : r.items[i].product.costPrice = Num(0)
  /\ NMul(Num(50), Num(200)) = Num(10000)
  /\ DiscountAmountOf("percent", Num(10000), Num(0)) = Num(0)
  /\ TotalOf(Num(10000), DiscountAmountOf("percent", Num(10000), Num(0))) = Num(10000)

\* An invoice of subtotal 90 with a discount of 70 percent: profit 27.
C13_Witness ==
  \E r \in Handed("onCreateInvoice") :
    /\ r.subtotal = Num(90)
    /\ r.discount = Num(63)
    /\ r.profit = Num(27)
    /\ Len(r.items) > 0

\* A step that renders the history card
RenderStep ==
  /\ last'.op = "render"
  /\ last' # last \/ receipts' # receipts

\* C14: the history card shows the last min(n, length) receipts of the log,
\* most recent first, with n = 3 in ShoppingCart and n = 10 in CartView, for
\* every length of the log, and rendering it leaves the log as it was.
C14_HistoryShowsLastN ==
  [][RenderStep =>
       LET n == IF mounted = "ShoppingCart" THEN 3 ELSE 10
           k == IF Len(receipts) < n THEN Len(receipts) ELSE n
           shown == last'.calls[1].args[1]
       IN /\ Len(shown) = k
          /\ \A i \in 1..k : shown[i] = receipts[Len(receipts) + 1 - i]
          /\ receipts' = receipts]_vars

\* CartView rendered a log of 11 receipts: 10 are shown, the 11th first, and
\* the oldest is left out.
C14_Witness ==
  /\ mounted = "CartView"
  /\ last.op = "render"
  /\ Len(receipts) = 11
  /\ Len(last.calls[1].args[1]) = 10
  /\ last.calls[1].args[1][1] = receipts[11]
  /\ last.calls[1].args[1][10] = receipts[2]
  /\ receipts[1].id[1] # receipts[11].id[1]

\* C15: when the quantity selector of a cart line reports 0 the cart calls
\* removeFromCart(productId) and nothing else; when it reports another
\* quantity it calls updateCartQuantity(productId, quantity, finalPrice) with
\* the override price of the line as it is.  No line is stored at quantity 0.
C15_ZeroQuantityRemovesLine ==
  [][\A i \in 1..Len(cart), q \in UpdateQuantities :
       (mounted = "ShoppingCart" /\ QuantityChanged(i, q)) =>
          /\ IF q = Num(0)
             THEN /\ last'.calls = <<[fn |-> "removeFromCart", args |-> <<cart[i].product.id>>]>>
                  /\ \A j \in 1..Len(cart') : cart'[j].product.id # cart[i].product.id
                  /\ Len(cart') < Len(cart)
             ELSE /\ last'.calls = <<[fn |-> "updateCartQuantity",
                                     args |-> <<cart[i].product.id, q, cart[i].finalPrice>>]>>
                  /\ Len(cart') = Len(cart)
                  /\ cart'[i].quantity = q
                  /\ cart'[i].finalPrice = cart[i].finalPrice
          /\ \A j \in 1..Len(cart') : cart'[j].quantity.int >= 1]_vars

\* The selector of one of two lines reported 0: removeFromCart was called
\* and the other line is what is left.
C15_Witness ==
  /\ last.op = "onQuantityChange"
  /\ last.calls[1].fn = "removeFromCart"
  /\ Len(cart) = 1
  /\ cart[1].product.id # last.calls[1].args[1]

\* The list after removeItem of row i and addItem, on the regular tab, of a
\* row with the name, quantity and unit price of row i
RemovedAndReAdded(i) ==
  Append(RemoveFrom(items, items[i].id),
         RegularItemOf([name |-> items[i].name, quantity |-> items[i].quantity,
                        unitPrice |-> items[i].unitPrice]))

\* C16: removing a row of the manual list and adding a row with the same
\* name, quantity and unit price gives the item count, the subtotal and,
\* under every discount setting, the total of the list before the removal.
C16_RemoveReAddNeutral ==
  \A i \in 1..Len(items) :
    LET after == RemovedAndReAdded(i)
        sub == SumTotals(after, 1, Zero)
    IN /\ Len(after) = Len(items)
       /\ sub = subtotal
       /\ \A t \in DiscountTypes, d \in Discounts :
            TotalOf(sub, DiscountAmountOf(t, sub, d))
              = TotalOf(subtotal, DiscountAmountOf(t, subtotal, d))

\* C17: in handleSignIn, handleSignUp and handleForgotPassword a gateway
\* call that throws or rejects is caught in the handler and an error message
\* is set, and whenever isLoading is true it becomes false again.
C17_ThrownFailureHandled ==
  /\ [](last.outcome \in {"threw", "caught"} => (last.outcome = "caught" /\ error # ""))
  /\ (isLoading ~> ~isLoading)

\* The positions in the calls of the latest handler run at which the printer
\* callback was called
PrinterCalls(run) ==
  {i \in 1..Len(run.calls) : run.calls[i].fn \in {"onPrintReceipt", "onPrintThermal"}}

\* A step of one of the two create-and-print handlers
PrintFlowStep ==
  /\ last'.op \in {"BuatPrintNota", "handleCheckoutAndPrint"}
  /\ last' # last \/ pending' # pending \/ receipts' # receipts

\* C18: in "Buat & Print Nota" and in handleCheckoutAndPrint the printer
\* callback is called only with a receipt created in the same run, never
\* after a failed validation or a null receipt, and after the receipt was
\* handed to onCreateInvoice or returned by processTransaction; whatever the
\* outcome of the printer call, the receipt stays created and the form is
\* reset.
C18_PrintOnlyAfterCreation ==
  [][PrintFlowStep =>
       \A i \in PrinterCalls(last') :
          /\ i = 2
          /\ last'.outcome # "rejected"
          /\ IF last'.op = "BuatPrintNota"
             THEN /\ items # <<>>
                  /\ last'.calls[1].fn = "onCreateInvoice"
                  /\ last'.calls[1].args[1] = last'.calls[2].args[1]
                  /\ Len(pending') = Len(pending) + 1
                  /\ pending'[Len(pending')].id = last'.calls[2].args[1].id
                  /\ items' = <<>> /\ currentItem' = EmptyCurrentItem
                  /\ discount' = Num(0) /\ paymentMethod' = "cash"
             ELSE /\ cart # <<>>
                  /\ last'.calls[1].fn = "processTransaction"
                  /\ Len(receipts') = Len(receipts) + 1
                  /\ receipts'[Len(receipts')].id = last'.calls[2].args[1].id
                  /\ cart' = <<>>
                  /\ discount' = Num(0) /\ paymentMethod' = "cash"
                  /\ discountType' = "amount"]_vars

\* A step in which handleSignUp ran from its start to its await or to the
\* return of a failed validation
SignUpSubmitStep ==
  /\ last'.op = "handleSignUp"
  /\ last'.outcome \in {"rejected", "awaiting"}

\* The form the claim excludes: the two passwords differ or one of the four
\* fields has no character
InvalidSignUpForm ==
  \/ formData.password # formData.confirmPassword
  \/ Len(formData.email) = 0
  \/ Len(formData.username) = 0
  \/ Len(formData.password) = 0
  \/ Len(formData.displayName) = 0

\* C19: when handleSignUp is submitted with a password that differs from its
\* confirmation or with an empty email, username, password or display name,
\* the signUp gateway is not called and no request is left in flight, an error
\* message is set, the form data and the sign-up mode stay as they were, and
\* isLoading is false when the handler returns.
C19_InvalidSignUpNeverCallsGateway ==
  [][(SignUpSubmitStep /\ InvalidSignUpForm) =>
       /\ last'.calls = <<>>
       /\ last'.outcome = "rejected"
       /\ inflight' = inflight
       /\ error' \in {"Password tidak cocok", "Semua field harus diisi"}
       /\ formData' = formData
       /\ isSignUp' = isSignUp
       /\ isSignUp'
       /\ isLoading' = FALSE]_vars

C19_Witness ==
  /\ last.op = "handleSignUp"
  /\ last.outcome = "rejected"
  /\ error = "Semua field harus diisi"
  /\ formData.password = formData.confirmPassword
  /\ formData.password # <<>>
  /\ formData.email # <<>>
  /\ formData.username # <<>>
  /\ formData.displayName = <<>>
  /\ isSignUp
  /\ ~isLoading

\* A step in which handleSignIn ran from its start to its await
SignInSubmitStep ==
  /\ last'.op = "handleSignIn"
  /\ last'.outcome = "awaiting"

\* A step in which a suspended run of handleSignIn received its result
SignInResultStep ==
  /\ last'.op = "handleSignIn"
  /\ last'.outcome = "done"
  /\ inflight'["handleSignIn"] < inflight["handleSignIn"]

\* The identifier typed into the login form has an "@" at some position
HasAt(identifier) == "@" \in {identifier[i] : i \in DOMAIN identifier}

\* C20: a sign-in submit issues exactly one gateway call, signIn(identifier,
\* password) when the identifier contains "@" and signInWithUsername(identifier,
\* password) otherwise; when the result arrives, the error on screen is the
\* message of the result's error, and no error is on screen when the result
\* carries none.
C20_SignInRoutesByIdentifier ==
  [][/\ SignInSubmitStep =>
          /\ Len(last'.calls) = 1
          /\ last'.calls[1].fn = IF HasAt(formData.email) THEN "signIn" ELSE "signInWithUsername"
          /\ last'.calls[1].args = <<formData.email, formData.password>>
          /\ inflight'["handleSignIn"] = inflight["handleSignIn"] + 1
     /\ SignInResultStep =>
          /\ last'.calls = <<>>
          /\ error' = IF last'.received[1].result.error # NoError
                      THEN last'.received[1].result.error[1].message
                      ELSE ""]_vars

\* A result with an error has arrived and its message is on screen
C20_Witness ==
  /\ last.op = "handleSignIn"
  /\ last.outcome = "done"
  /\ last.received[1].result.error # NoError
  /\ error = "Invalid login credentials"
  /\ HasAt(formData.email)
  /\ ~isLoading

\* A step in which one of the three submit handlers started
SubmitStep ==
  /\ last'.op \in {"handleSignIn", "handleSignUp", "handleForgotPassword"}
  /\ last'.outcome \in {"awaiting", "rejected"}

\* C21: at any time at most one authentication request (sign-in, sign-up or
\* password reset) is outstanding, and no submit starts while isLoading is
\* true, in every interleaving of submits, responses and switches between the
\* login, sign-up and forgot-password forms.
C21_OneOutstandingRequest ==
  /\ [](Total(inflight) <= 1)
  /\ [][SubmitStep => ~isLoading]_vars

\* A password reset is outstanding while the user is back on the login form
C21_Witness ==
  /\ inflight["handleForgotPassword"] = 1
  /\ Total(inflight) = 1
  /\ isLoading
  /\ ~showForgotPassword
  /\ formData.email # <<>>
  /\ formData.password # <<>>

\* A run of handleCreateInvoice, from either button, that produced a receipt
InvoiceProduced ==
  /\ last'.op \in {"handleCreateInvoice", "BuatPrintNota"}
  /\ Len(pending') = Len(pending) + 1

\* A run of handleCreateInvoice that ended at the empty-list check
InvoiceRefused ==
  /\ last'.op \in {"handleCreateInvoice", "BuatPrintNota"}
  /\ last'.outcome = "rejected"

\* A cart checkout whose processTransaction returned a receipt
SaleProduced ==
  /\ last'.op \in {"handleCheckout", "handleCheckoutAndPrint"}
  /\ Len(receipts') = Len(receipts) + 1

\* A cart checkout whose processTransaction returned null
SaleRefused ==
  /\ last'.op \in {"handleCheckout", "handleCheckoutAndPrint"}
  /\ last'.outcome = "rejected"

\* C22: the working form is reset if and only if a receipt was produced.
\* After a successful handleCreateInvoice the item list is empty, the entry
\* fields are cleared, the discount is 0 and the payment method is "cash";
\* after a cart checkout that returned a receipt the payment method is "cash",
\* the discount 0 and the discount mode "amount"; when no receipt was produced
\* the form is as it was.
C22_ResetIffReceipt ==
  [][/\ InvoiceProduced =>
          /\ items' = <<>>
          /\ currentItem' = [name |-> <<>>, quantity |-> Num(0), unitPrice |-> Num(0)]
          /\ discount' = Num(0)
          /\ paymentMethod' = "cash"
     /\ InvoiceRefused =>
          /\ items' = items
          /\ currentItem' = currentItem
          /\ discount' = discount
          /\ paymentMethod' = paymentMethod
          /\ discountType' = discountType
     /\ SaleProduced =>
          /\ paymentMethod' = "cash"
          /\ discount' = Num(0)
          /\ discountType' = "amount"
     /\ SaleRefused =>
          /\ paymentMethod' = paymentMethod
          /\ discount' = discount
          /\ discountType' = discountType]_vars

\* A price reported by the price control of a cart line
PriceChangeOnLine ==
  /\ last'.op = "onPriceChange"
  /\ last'.received # <<>>

\* handlePriceChange called with the id of a product no cart line has
PriceChangeOffCart ==
  /\ last'.op = "handlePriceChange"
  /\ last'.outcome = "rejected"

\* C23: a price change made on a cart line calls updateCartQuantity once, with
\* the product id of that line, the current quantity of that same line and the
\* new price, also when two lines of the cart have the same product id and
\* different override prices; no call is made when the product is not in the
\* cart.
C23_PriceChangeKeepsLineQuantity ==
  [][/\ PriceChangeOnLine =>
          LET from == last'.received[1]
          IN last'.calls = <<Call("updateCartQuantity",
                                  <<cart[from.line].product.id, cart[from.line].quantity,
                                    from.price>>)>>
     /\ PriceChangeOffCart => last'.calls = <<>> /\ cart' = cart]_vars

\* The sum over the items of a receipt of finalPrice * quantity, from left to
\* right in double arithmetic, and the same sum without any rounding
RECURSIVE ItemsSum(_, _, _)
ItemsSum(list, i, sum) ==
  IF i > Len(list) THEN sum
  ELSE ItemsSum(list, i + 1, NAdd(sum, NMul(list[i].finalPrice, list[i].quantity)))

RECURSIVE ItemsSumExact(_, _, _)
ItemsSumExact(list, i, sum) ==
  IF i > Len(list) THEN sum
  ELSE ItemsSumExact(list, i + 1, ExactAdd(sum, ExactMul(list[i].finalPrice, list[i].quantity)))

\* C24: every receipt built by handleCreateInvoice is consistent with its own
\* items: its subtotal equals the sum over its items of finalPrice * quantity,
\* also for rows added on the photocopy tab, whose unit price is
\* totalPrice / quantity, and the finalPrice of each item equals the sellPrice
\* of its product.
C24_ReceiptConsistentWithItems ==
  [][(last'.op = "handleCreateInvoice" /\ Len(pending') = Len(pending) + 1) =>
       LET r == last'.calls[1].args[1]
       IN /\ \/ r.subtotal = ItemsSum(r.items, 1, Num(0))
             \/ r.subtotal = ItemsSumExact(r.items, 1, Num(0))
          /\ \A i \in 1..Len(r.items) : r.items[i].finalPrice = r.items[i].product.sellPrice]_vars

\* The form on screen, and the form whose submit runs a handler
FormShown ==
  IF showForgotPassword THEN "forgot" ELSE IF isSignUp THEN "signup" ELSE "login"

FormOf(op) ==
  CASE op = "handleSignIn" -> "login"
    [] op = "handleSignUp" -> "signup"
    [] op = "handleForgotPassword" -> "forgot"

\* A step in which a request in flight completed and its handler ran on
LateResponse ==
  /\ last'.op \in {"handleSignIn", "handleSignUp", "handleForgotPassword"}
  /\ last'.received # <<>>
  /\ Total(inflight') < Total(inflight)

\* C25: the completion of an authentication request changes only the form
\* that issued it.  When another form is on screen at the time the response
\* arrives, the response sets no error on it, clears none of its fields and
\* does not change which form is shown.
C25_LateResponseLeavesOtherForm ==
  [][(LateResponse /\ FormShown # FormOf(last'.op)) =>
       /\ error' = error
       /\ formData' = formData
       /\ resetEmail' = resetEmail
       /\ isSignUp' = isSignUp
       /\ showForgotPassword' = showForgotPassword]_vars

====
